---- MODULE Spec2Model ----
(***************************************************************************)
(* The credential keystore (utils/token_keystore.py) and the credential    *)
(* provider (utils/spotify_playlist_fetcher.py) as a state machine.        *)
(*                                                                         *)
(* One process at a time owns the durable keystore file.  A process is     *)
(* either down, holds a bare TokenKeystore, or holds a                     *)
(* SpotifyPlaylistFetcher (which owns its TokenKeystore).  Every public    *)
(* method is one action; `last` records the call that was made last, its   *)
(* arguments and what it returned or raised.                               *)
(***************************************************************************)
EXTENDS Integers, Sequences, FiniteSets, TLC

VARIABLES
    now,           \* int(time.time()): the wall clock in whole seconds
    file,          \* the durable keystore file (.spotify_keystore.json)
    proc,          \* "down" | "keystore" | "fetcher": the objects that are alive
    token_data,    \* TokenKeystore.token_data
    access_token,  \* SpotifyPlaylistFetcher.access_token
    last_save,     \* outcome of the latest _save_keystore of this instance
    requests,      \* token-issuance requests sent to the authority so far
    instances,     \* constructions attempted so far (process starts)
    last,          \* the latest call: name, arguments, result
    client,        \* the playlist client: the call in progress and its paging
    store,         \* the record store writer and the document store
    main,          \* the orchestrator: where main() is
    peer           \* the processes that share the keystore file

vars == <<now, file, proc, token_data, access_token, last_save, requests,
          instances, last>>

\* the state of the components other than the keystore and the provider
xvars == <<client, store, main, peer>>

allvars == <<vars, xvars>>

----------------------------------------------------------------------------
(* Bounds of the model *)

MaxTime == 2
MaxRequests == 1
MaxInstances == 2

(* Program constants *)

SAFETY_MARGIN == 60
DEFAULT_EXPIRES_IN == 3600

Tokens == {"tA", "tB"}
\* lifetimes the authority advertises: around the margin, and shorter than
\* the clock range so that raw expiry is reached too
Lifetimes == {1, 60, 61, 62}

NoStr == "<None>"     \* Python's None where a string is expected

----------------------------------------------------------------------------
(* Python values held by token_data.                                       *)
(* kind "dict": a dict whose key set is `keys`; the three record fields    *)
(* keep their value (a missing field is normalised to NoStr / 0).          *)
(* kind "falsy" / "truthy": a JSON value that is not an object (null, [],  *)
(* 0 / [1], 5, "x"), as json.load returns it from a foreign file.          *)

Dict(keys, tok, exp, cre) ==
    [kind |-> "dict", keys |-> keys,
     access_token |-> IF "access_token" \in keys THEN tok ELSE NoStr,
     expires_at   |-> IF "expires_at" \in keys THEN exp ELSE 0,
     created_at   |-> IF "created_at" \in keys THEN cre ELSE 0]

EmptyDict == Dict({}, NoStr, 0, 0)

NonDict(truthy) ==
    [kind |-> IF truthy THEN "truthy" ELSE "falsy", keys |-> {},
     access_token |-> NoStr, expires_at |-> 0, created_at |-> 0]

\* Python truthiness: `not self.token_data`
Falsy(td) == td.kind = "falsy" \/ (td.kind = "dict" /\ td.keys = {})

\* dict.get(key, default)
get_expires_at(td) == IF "expires_at" \in td.keys THEN td.expires_at ELSE 0
get_created_at(td) == IF "created_at" \in td.keys THEN td.created_at ELSE 0
get_token(td) == IF "access_token" \in td.keys THEN td.access_token ELSE NoStr

----------------------------------------------------------------------------
(* Results of calls *)

RetNone == [kind |-> "None", str |-> NoStr, exc |-> "", status |-> 0, text |-> ""]
RetStr(s) == IF s = NoStr THEN RetNone
             ELSE [kind |-> "str", str |-> s, exc |-> "", status |-> 0, text |-> ""]
RetBool(b) == [kind |-> IF b THEN "True" ELSE "False", str |-> NoStr, exc |-> "",
               status |-> 0, text |-> ""]
Raise(e, status, text) ==
    [kind |-> "raise", str |-> NoStr, exc |-> e, status |-> status, text |-> text]

NoInfo == [status |-> "", created_at |-> 0, expires_at |-> 0,
           time_until_expiry |-> 0, token_preview |-> <<>>]

\* the authority's answer to the call's request: status 0 when none was sent
NoResp == [status |-> 0, text |-> ""]

Call(op) == [op |-> op, token |-> NoStr, expires_in |-> 0, force |-> FALSE,
             ret |-> RetNone, info |-> NoInfo, save |-> "none", sent |-> 0,
             resp |-> NoResp, lifetime_omitted |-> FALSE]

----------------------------------------------------------------------------
(* TokenKeystore.get_valid_token, as a function of the record and the clock *)

get_valid_token_late(td, t) ==
    IF Falsy(td) THEN RetNone
    ELSE IF td.kind # "dict" THEN Raise("AttributeError", 0, "")
    ELSE IF t > get_expires_at(td) - SAFETY_MARGIN THEN RetNone
    ELSE RetStr(get_token(td))

get_valid_token(td, t) ==
    IF Falsy(td) THEN RetNone
    ELSE IF td.kind # "dict" THEN Raise("AttributeError", 0, "")
    ELSE IF t >= get_expires_at(td) - SAFETY_MARGIN THEN RetNone
    ELSE RetStr(get_token(td))

(* TokenKeystore.is_token_valid *)
is_token_valid(td, t) ==
    LET r == get_valid_token(td, t) IN
    IF r.kind = "raise" THEN r ELSE RetBool(r.kind # "None")

Max(a, b) == IF a >= b THEN a ELSE b

\* access_token[:20] + "...": the model's tokens are shorter than 20 characters
token_preview(td) ==
    IF get_token(td) # NoStr THEN <<get_token(td), "...">> ELSE <<>>

(* TokenKeystore.get_token_info: the returned dict, or the exception *)
get_token_info_raw(td, t) ==
    IF Falsy(td) THEN [NoInfo EXCEPT !.status = "no_token"]
    ELSE IF td.kind # "dict" THEN [NoInfo EXCEPT !.status = "raise"]
    ELSE [status |-> IF t < get_expires_at(td) THEN "valid" ELSE "expired",
          created_at |-> get_created_at(td),
          expires_at |-> get_expires_at(td),
          time_until_expiry |-> Max(0, get_expires_at(td) - t),
          token_preview |-> token_preview(td)]

get_token_info(td, t) ==
    IF Falsy(td) THEN [NoInfo EXCEPT !.status = "no_token"]
    ELSE IF td.kind # "dict" THEN [NoInfo EXCEPT !.status = "raise"]
    ELSE [status |-> IF is_token_valid(td, t).kind = "True" THEN "valid" ELSE "expired",
          created_at |-> get_created_at(td),
          expires_at |-> get_expires_at(td),
          time_until_expiry |-> Max(0, get_expires_at(td) - t),
          token_preview |-> token_preview(td)]

----------------------------------------------------------------------------
(* The durable file and the JSON text in it.                               *)
(* kind "missing": no file; "unreadable": open() raises IOError;           *)
(* "bad_json": text json.load rejects (also an empty or truncated file);   *)
(* "bad_utf8": bytes the text decoder rejects; "json": a JSON document.    *)
(* A document is an object (a sequence of members, in file order, numbers  *)
(* written as decimal digits), an array or null.                           *)

RECURSIVE ToDigits(_)
ToDigits(n) == IF n < 10 THEN <<n>> ELSE Append(ToDigits(n \div 10), n % 10)

RECURSIVE FromDigits(_)
FromDigits(ds) ==
    IF ds = <<>> THEN 0
    ELSE 10 * FromDigits(SubSeq(ds, 1, Len(ds) - 1)) + ds[Len(ds)]

StrMember(k, s) == [key |-> k, isnum |-> FALSE, str |-> s, digits |-> <<>>]
NumMember(k, n) == [key |-> k, isnum |-> TRUE, str |-> "", digits |-> ToDigits(n)]

Object(members) == [type |-> "object", members |-> members]
Array(n) == [type |-> "array", members |-> [i \in 1..n |-> NumMember("", i)]]
Null == [type |-> "null", members |-> <<>>]

NoDoc == Null
File(kind) == [kind |-> kind, doc |-> NoDoc]
FileJson(doc) == [kind |-> "json", doc |-> doc]

\* json.dump(self.token_data, f): the members in the dict's insertion order
json_dump_short(td) ==
    Object(
      (IF "access_token" \in td.keys
         THEN <<StrMember("access_token", td.access_token)>> ELSE <<>>)
      \o (IF "expires_at" \in td.keys
         THEN <<NumMember("expires_at", td.expires_at)>> ELSE <<>>))

json_dump(td) ==
    Object(
      (IF "access_token" \in td.keys
         THEN <<StrMember("access_token", td.access_token)>> ELSE <<>>)
      \o (IF "expires_at" \in td.keys
         THEN <<NumMember("expires_at", td.expires_at)>> ELSE <<>>)
      \o (IF "created_at" \in td.keys
         THEN <<NumMember("created_at", td.created_at)>> ELSE <<>>))

\* the value json.load gives key k of an object: that of its last member k
MemberOf(members, k) ==
    LET idx == {i \in 1..Len(members) : members[i].key = k}
    IN  members[CHOOSE i \in idx : \A j \in idx : j <= i]

\* json.load(f) on a well-formed document
json_load(doc) ==
    IF doc.type = "object" THEN
        LET ms == doc.members
            keys == {ms[i].key : i \in 1..Len(ms)}
        IN  Dict(keys,
                 IF "access_token" \in keys
                    THEN MemberOf(ms, "access_token").str ELSE NoStr,
                 IF "expires_at" \in keys
                    THEN FromDigits(MemberOf(ms, "expires_at").digits) ELSE 0,
                 IF "created_at" \in keys
                    THEN FromDigits(MemberOf(ms, "created_at").digits) ELSE 0)
    ELSE IF doc.type = "array" THEN NonDict(doc.members # <<>>)
    ELSE NonDict(FALSE)

(* TokenKeystore._load_keystore: the value returned, or the exception that  *)
(* neither except clause catches                                            *)
load_keystore(f) ==
    IF f.kind = "missing" THEN [raises |-> "", td |-> EmptyDict]
    ELSE IF f.kind \in {"unreadable", "bad_json"} THEN [raises |-> "", td |-> EmptyDict]
    ELSE IF f.kind = "bad_utf8" THEN [raises |-> "UnicodeDecodeError", td |-> EmptyDict]
    ELSE [raises |-> "", td |-> json_load(f.doc)]

(* TokenKeystore._save_keystore.  The outcome of the write is the          *)
(* environment's: "ok"; "open_fails" (open() raises, the file is left as   *)
(* it was); "write_fails" (the file was truncated by open() and the dump   *)
(* stopped part way: what is left is no JSON document).                    *)
SaveOutcomes == {"ok", "open_fails", "write_fails"}

save_keystore(td, f, outcome) ==
    IF outcome = "ok" THEN FileJson(json_dump(td))
    ELSE IF outcome = "open_fails" THEN f
    ELSE File("bad_json")

\* whether _save_keystore lets the IOError out (it catches and prints it)
save_raises_uncaught(outcome) == outcome # "ok"

save_raises(outcome) == FALSE

\* the dict store_token assigns
store_record_no_lifetime(tok, expires_in, current_time) ==
    Dict({"access_token", "expires_at", "created_at"}, tok, current_time, current_time)

store_record(tok, expires_in, current_time) ==
    Dict({"access_token", "expires_at", "created_at"},
         tok, current_time + expires_in, current_time)

\* the dict clear_token assigns
clear_record_keep(td) == td

clear_record(td) == EmptyDict

----------------------------------------------------------------------------
(* Files a process may find when it starts *)

InitFiles ==
    { File("missing"), File("unreadable"), File("bad_json"), File("bad_utf8"),
      FileJson(Null), FileJson(Array(0)), FileJson(Array(1)),
      FileJson(Object(<<>>)),
      FileJson(Object(<<NumMember("other", 1)>>)),
      FileJson(Object(<<StrMember("access_token", "tA")>>)),
      FileJson(Object(<<NumMember("expires_at", DEFAULT_EXPIRES_IN)>>)),
      FileJson(json_dump(store_record("tA", 62, 0))),
      FileJson(json_dump(store_record("tB", 1, 0))) }

(* Answers of the authority's token endpoint *)
Responses ==
    [status : {200}, access_token : Tokens, has_expires_in : {TRUE},
     expires_in : Lifetimes, text : {"ok"}]
    \cup [status : {200}, access_token : Tokens, has_expires_in : {FALSE},
          expires_in : {0}, text : {"ok"}]
    \cup [status : {401, 500}, access_token : {NoStr}, has_expires_in : {FALSE},
          expires_in : {0}, text : {"error"}]

----------------------------------------------------------------------------
(* The other components, while only the keystore and the provider run *)

ClientIdle == [pc |-> "idle"]
StoreIdle == [pc |-> "idle"]
MainIdle == [pc |-> "idle"]
PeerIdle == [pc |-> "idle"]

XIdle ==
    /\ client = ClientIdle
    /\ store = StoreIdle
    /\ main = MainIdle
    /\ peer = PeerIdle

----------------------------------------------------------------------------
Init ==
    /\ XIdle
    /\ now = 0
    /\ file \in InitFiles
    /\ proc = "down"
    /\ token_data = EmptyDict
    /\ access_token = NoStr
    /\ last_save = "none"
    /\ requests = 0
    /\ instances = 0
    /\ last = Call("init")

(* time.time() moves on *)
Tick ==
    /\ now < MaxTime
    /\ now' = now + 1
    /\ last' = Call("tick")
    /\ UNCHANGED <<file, proc, token_data, access_token, last_save, requests, instances>>

(* TokenKeystore.__init__ in a new process *)
NewKeystore ==
    /\ instances < MaxInstances
    /\ instances' = instances + 1
    /\ LET r == load_keystore(file) IN
       /\ proc' = IF r.raises # "" THEN "down" ELSE "keystore"
       /\ token_data' = r.td
       /\ last' = [Call("TokenKeystore") EXCEPT
                     !.ret = IF r.raises # "" THEN Raise(r.raises, 0, "") ELSE RetNone]
    /\ access_token' = NoStr
    /\ last_save' = "none"
    /\ UNCHANGED <<now, file, requests>>

NewFetcher_no_cached_token ==
    /\ instances < MaxInstances
    /\ instances' = instances + 1
    /\ LET r == load_keystore(file)
           c == get_valid_token(r.td, now)
           exc == IF r.raises # "" THEN r.raises
                  ELSE IF c.kind = "raise" THEN c.exc ELSE ""
       IN
       /\ proc' = IF exc # "" THEN "down" ELSE "fetcher"
       /\ token_data' = IF exc # "" THEN EmptyDict ELSE r.td
       /\ access_token' = NoStr
       /\ last' = [Call("SpotifyPlaylistFetcher") EXCEPT
                     !.ret = IF exc # "" THEN Raise(exc, 0, "") ELSE RetNone]
    /\ last_save' = "none"
    /\ UNCHANGED <<now, file, requests>>

(* SpotifyPlaylistFetcher.__init__ in a new process: the keystore, then    *)
(* _load_cached_token                                                      *)
NewFetcher ==
    /\ instances < MaxInstances
    /\ instances' = instances + 1
    /\ LET r == load_keystore(file)
           c == get_valid_token(r.td, now)
           exc == IF r.raises # "" THEN r.raises
                  ELSE IF c.kind = "raise" THEN c.exc ELSE ""
       IN
       /\ proc' = IF exc # "" THEN "down" ELSE "fetcher"
       /\ token_data' = IF exc # "" THEN EmptyDict ELSE r.td
       /\ access_token' = IF exc = "" /\ c.kind = "str" THEN c.str ELSE NoStr
       /\ last' = [Call("SpotifyPlaylistFetcher") EXCEPT
                     !.ret = IF exc # "" THEN Raise(exc, 0, "") ELSE RetNone]
    /\ last_save' = "none"
    /\ UNCHANGED <<now, file, requests>>

----------------------------------------------------------------------------
(* The TokenKeystore's methods, called on a bare keystore *)

Up == proc \in {"keystore", "fetcher"}

(* TokenKeystore.store_token(access_token, expires_in) *)
StoreToken ==
    /\ proc = "keystore"
    /\ \E t \in Tokens, L \in Lifetimes, o \in SaveOutcomes :
        /\ token_data' = store_record(t, L, now)
        /\ file' = save_keystore(token_data', file, o)
        /\ last_save' = o
        /\ last' = [Call("store_token") EXCEPT
                      !.token = t, !.expires_in = L, !.save = o,
                      !.ret = IF save_raises(o) THEN Raise("OSError", 0, "")
                              ELSE RetNone]
    /\ UNCHANGED <<now, proc, access_token, requests, instances>>

(* TokenKeystore.clear_token() *)
ClearToken ==
    /\ proc = "keystore"
    /\ \E o \in SaveOutcomes :
        /\ token_data' = clear_record(token_data)
        /\ file' = save_keystore(token_data', file, o)
        /\ last_save' = o
        /\ last' = [Call("clear_token") EXCEPT
                      !.save = o,
                      !.ret = IF save_raises(o) THEN Raise("OSError", 0, "")
                              ELSE RetNone]
    /\ UNCHANGED <<now, proc, access_token, requests, instances>>

(* TokenKeystore.get_valid_token(), with a sweep of the stale record *)
GetValidToken_sweep ==
    /\ proc = "keystore"
    /\ last' = [Call("get_valid_token") EXCEPT !.ret = get_valid_token(token_data, now)]
    /\ token_data' = IF get_valid_token(token_data, now).kind = "None"
                        THEN EmptyDict ELSE token_data
    /\ UNCHANGED <<now, file, proc, access_token, last_save, requests, instances>>

(* TokenKeystore.get_valid_token() *)
GetValidToken ==
    /\ proc = "keystore"
    /\ last' = [Call("get_valid_token") EXCEPT !.ret = get_valid_token(token_data, now)]
    /\ UNCHANGED <<now, file, proc, token_data, access_token, last_save, requests,
                   instances>>

(* TokenKeystore.is_token_valid() *)
IsTokenValid ==
    /\ proc = "keystore"
    /\ last' = [Call("is_token_valid") EXCEPT !.ret = is_token_valid(token_data, now)]
    /\ UNCHANGED <<now, file, proc, token_data, access_token, last_save, requests,
                   instances>>

(* TokenKeystore.get_token_info() *)
GetTokenInfo ==
    /\ proc = "keystore"
    /\ LET i == get_token_info(token_data, now) IN
       last' = [Call("get_token_info") EXCEPT
                  !.info = i,
                  !.ret = IF i.status = "raise" THEN Raise("AttributeError", 0, "")
                          ELSE RetNone]
    /\ UNCHANGED <<now, file, proc, token_data, access_token, last_save, requests,
                   instances>>

----------------------------------------------------------------------------
(* The provider: SpotifyPlaylistFetcher's token methods *)

\* line 78: the answer counts as a successful issuance
issuance_ok_lax(resp) == resp.status < 500

issuance_ok(resp) == resp.status = 200

expires_in_of_undefaulted(resp) == resp.expires_in

\* line 83: token_data.get("expires_in", 3600)
expires_in_of(resp) ==
    IF resp.has_expires_in THEN resp.expires_in ELSE DEFAULT_EXPIRES_IN

\* line 51: the cached token is used
use_cache_unchecked(force, td, t) == ~force

use_cache(force, td, t) == ~force /\ is_token_valid(td, t).kind = "True"

\* line 51: the validity check raises
cache_check_raises(force, td, t) == ~force /\ is_token_valid(td, t).kind = "raise"

(* get_access_token(force_refresh), called as `op` *)
get_access_token(op, force) ==
    IF cache_check_raises(force, token_data, now) THEN
        /\ last' = [Call(op) EXCEPT !.force = force,
                      !.ret = is_token_valid(token_data, now)]
        /\ UNCHANGED <<now, file, proc, token_data, access_token, last_save,
                       requests, instances>>
    ELSE IF use_cache(force, token_data, now) THEN
        /\ access_token' = get_valid_token(token_data, now).str
        /\ last' = [Call(op) EXCEPT !.force = force,
                      !.ret = get_valid_token(token_data, now)]
        /\ UNCHANGED <<now, file, proc, token_data, last_save, requests, instances>>
    ELSE
        /\ requests < MaxRequests
        /\ requests' = requests + 1
        /\ \E resp \in Responses, o \in SaveOutcomes :
            IF issuance_ok(resp) THEN
                /\ access_token' = resp.access_token
                /\ token_data' = store_record(resp.access_token, expires_in_of(resp), now)
                /\ file' = save_keystore(token_data', file, o)
                /\ last_save' = o
                /\ last' = [Call(op) EXCEPT
                              !.force = force, !.sent = 1, !.save = o,
                              !.resp = [status |-> resp.status, text |-> resp.text],
                              !.token = resp.access_token,
                              !.expires_in = expires_in_of(resp),
                              !.lifetime_omitted = ~resp.has_expires_in,
                              !.ret = IF save_raises(o) THEN Raise("OSError", 0, "")
                                      ELSE RetStr(resp.access_token)]
            ELSE
                /\ o = "ok"
                /\ last' = [Call(op) EXCEPT
                              !.force = force, !.sent = 1,
                              !.resp = [status |-> resp.status, text |-> resp.text],
                              !.ret = Raise("Exception", resp.status, resp.text)]
                /\ UNCHANGED <<file, token_data, access_token, last_save>>
        /\ UNCHANGED <<now, proc, instances>>

(* SpotifyPlaylistFetcher.get_access_token(force_refresh) *)
GetAccessToken ==
    /\ proc = "fetcher"
    /\ \E force \in BOOLEAN : get_access_token("get_access_token", force)

(* SpotifyPlaylistFetcher.ensure_valid_token() *)
EnsureValidToken ==
    /\ proc = "fetcher"
    /\ IF access_token = NoStr \/ is_token_valid(token_data, now).kind # "True"
       THEN get_access_token("ensure_valid_token", FALSE)
       ELSE /\ last' = [Call("ensure_valid_token") EXCEPT !.ret = RetStr(access_token)]
            /\ UNCHANGED <<now, file, proc, token_data, access_token, last_save,
                           requests, instances>>

(* SpotifyPlaylistFetcher.clear_keystore() *)
ClearKeystore ==
    /\ proc = "fetcher"
    /\ \E o \in SaveOutcomes :
        /\ token_data' = clear_record(token_data)
        /\ file' = save_keystore(token_data', file, o)
        /\ last_save' = o
        /\ access_token' = IF save_raises(o) THEN access_token ELSE NoStr
        /\ last' = [Call("clear_keystore") EXCEPT
                      !.save = o,
                      !.ret = IF save_raises(o) THEN Raise("OSError", 0, "")
                              ELSE RetNone]
    /\ UNCHANGED <<now, proc, requests, instances>>

(* SpotifyPlaylistFetcher.show_keystore_status() *)
ShowKeystoreStatus ==
    /\ proc = "fetcher"
    /\ LET i == get_token_info(token_data, now) IN
       last' = [Call("show_keystore_status") EXCEPT
                  !.info = i,
                  !.ret = IF i.status = "raise" THEN Raise("AttributeError", 0, "")
                          ELSE RetNone]
    /\ UNCHANGED <<now, file, proc, token_data, access_token, last_save, requests,
                   instances>>

----------------------------------------------------------------------------
Next ==
    \/ Tick /\ UNCHANGED xvars
    \/ NewKeystore /\ UNCHANGED xvars
    \/ NewFetcher /\ UNCHANGED xvars
    \/ StoreToken /\ UNCHANGED xvars
    \/ ClearToken /\ UNCHANGED xvars
    \/ GetValidToken /\ UNCHANGED xvars
    \/ IsTokenValid /\ UNCHANGED xvars
    \/ GetTokenInfo /\ UNCHANGED xvars
    \/ GetAccessToken /\ UNCHANGED xvars
    \/ EnsureValidToken /\ UNCHANGED xvars
    \/ ClearKeystore /\ UNCHANGED xvars
    \/ ShowKeystoreStatus /\ UNCHANGED xvars

Spec == Init /\ [][Next]_allvars

----------------------------------------------------------------------------
(* Vocabulary of the properties *)

RecordKeys == {"access_token", "expires_at", "created_at"}

\* the latest call stored a token: store_token itself, or an issuance
Stored ==
    \/ last.op = "store_token"
    \/ last.op \in {"get_access_token", "ensure_valid_token"} /\ last.resp.status = 200

Cleared == last.op \in {"clear_token", "clear_keystore"}

Constructed == last.op \in {"TokenKeystore", "SpotifyPlaylistFetcher"}

\* the slot holds a record object
HoldsRecord == Up /\ token_data.kind = "dict" /\ token_data.keys # {}

\* expiresAt - 60 <= now < expiresAt
InWindow ==
    /\ get_expires_at(token_data) - SAFETY_MARGIN <= now
    /\ now < get_expires_at(token_data)

----------------------------------------------------------------------------
(* C1, as stated: for every lifetime L > 0, right after storeToken(t, L)   *)
(* getValidToken() returns t and isTokenValid() is true.                   *)
C1_AnyLifetime ==
    (Stored /\ last.expires_in > 0) =>
        /\ get_valid_token(token_data, now) = RetStr(last.token)
        /\ is_token_valid(token_data, now) = RetBool(TRUE)

(* C1, amended: for every lifetime L > 60 (the safety margin), right after *)
(* storeToken(t, L) getValidToken() returns t and isTokenValid() is true;  *)
(* for 0 < L <= 60 the token is absent from the start.                     *)
C1_LifetimeBeyondMargin ==
    Stored =>
        /\ last.expires_in > SAFETY_MARGIN =>
              /\ get_valid_token(token_data, now) = RetStr(last.token)
              /\ is_token_valid(token_data, now) = RetBool(TRUE)
        /\ last.expires_in <= SAFETY_MARGIN =>
              /\ get_valid_token(token_data, now) = RetNone
              /\ is_token_valid(token_data, now) = RetBool(FALSE)

C1_Witness ==
    /\ last.op = "store_token"
    /\ last.expires_in = SAFETY_MARGIN + 1
    /\ get_valid_token(token_data, now) = RetStr(last.token)

----------------------------------------------------------------------------
(* C2: the 60-second margin is strict.  A record stored at issuedAt with   *)
(* lifetime L has expiresAt = issuedAt + L; getValidToken() returns its    *)
(* token exactly while now < expiresAt - 60 and None from expiresAt - 60   *)
(* on; and while the record is not replaced, a None never turns back into  *)
(* a token.                                                                *)
C2_RecordStored ==
    Stored => /\ token_data.created_at = now
              /\ token_data.expires_at = now + last.expires_in
              /\ token_data.access_token = last.token
              /\ token_data.keys = RecordKeys

C2_Strict ==
    (HoldsRecord /\ "access_token" \in token_data.keys) =>
        /\ now < get_expires_at(token_data) - SAFETY_MARGIN
             => get_valid_token(token_data, now) = RetStr(token_data.access_token)
        /\ now >= get_expires_at(token_data) - SAFETY_MARGIN
             => get_valid_token(token_data, now) = RetNone

C2_StaysAbsent ==
    (/\ Up /\ Up' /\ instances' = instances
     /\ token_data' = token_data
     /\ get_valid_token(token_data, now).kind = "None")
       => get_valid_token(token_data', now').kind = "None"

C2_MarginEnforced ==
    /\ [](C2_RecordStored /\ C2_Strict)
    /\ [][C2_StaysAbsent]_vars

C2_Witness ==
    /\ last.op = "get_valid_token"
    /\ last.ret = RetNone
    /\ token_data.keys = RecordKeys
    /\ token_data.expires_at - token_data.created_at > SAFETY_MARGIN
    /\ now = token_data.expires_at - SAFETY_MARGIN
    /\ InWindow

----------------------------------------------------------------------------
InfoCall == /\ last.op \in {"get_token_info", "show_keystore_status"}
            /\ last.info.status \notin {"no_token", "raise"}

(* C3, as stated: for a non-empty slot the status of getTokenInfo() is     *)
(* "valid" exactly when now < expiresAt (raw expiry, without the margin).  *)
C3_RawExpiry ==
    (InfoCall /\ token_data.keys = RecordKeys) =>
        (last.info.status = "valid" <=> now < last.info.expires_at)

(* C3, amended: the status of getTokenInfo() applies the same 60-second    *)
(* margin as isTokenValid(): for a non-empty slot it is "valid" exactly    *)
(* when the record has a token and now < expiresAt - 60, and "expired"     *)
(* otherwise; in the window expiresAt - 60 <= now < expiresAt it is        *)
(* "expired" while time_until_expiry is still positive.                    *)
C3_StatusUsesMargin ==
    InfoCall =>
        /\ last.info.status \in {"valid", "expired"}
        /\ last.info.status = "valid" <=>
              /\ "access_token" \in token_data.keys
              /\ now < last.info.expires_at - SAFETY_MARGIN
        /\ last.info.expires_at = get_expires_at(token_data)
        /\ InWindow => /\ last.info.status = "expired"
                       /\ last.info.time_until_expiry > 0
                       /\ is_token_valid(token_data, now) = RetBool(FALSE)

C3_Witness ==
    /\ last.op = "get_token_info"
    /\ token_data.keys = RecordKeys
    /\ InWindow
    /\ last.info.status = "expired"
    /\ last.info.time_until_expiry = SAFETY_MARGIN

----------------------------------------------------------------------------
(* C4: getAccessToken(forceRefresh) sends a token request iff forceRefresh *)
(* is true or the keystore has no valid token, and then exactly one; with  *)
(* forceRefresh false and a valid token it returns the cached token and    *)
(* sends nothing, and so does ensureValidToken.                            *)
C4_Step ==
    LET valid == is_token_valid(token_data, now).kind = "True" IN
    /\ last'.op = "get_access_token" =>
          /\ requests' - requests \in {0, 1}
          /\ requests' - requests = last'.sent
          /\ requests' = requests + 1 <=> (last'.force \/ ~valid)
          /\ (~last'.force /\ valid) =>
                /\ last'.ret = RetStr(token_data.access_token)
                /\ last'.ret.kind = "str"
    /\ last'.op = "ensure_valid_token" =>
          /\ requests' - requests \in {0, 1}
          /\ requests' = requests + 1 <=> ~valid
          /\ valid => last'.ret.kind = "str"

C4_IssuanceIff == [][C4_Step]_vars

C4_Witness ==
    /\ last.op = "get_access_token"
    /\ ~last.force
    /\ last.sent = 0
    /\ requests = 1
    /\ last.ret = RetStr(token_data.access_token)
    /\ last.ret.kind = "str"

----------------------------------------------------------------------------
(* C5: a non-success answer to the token request makes getAccessToken fail *)
(* with an error carrying the status code and the body, and leaves the     *)
(* record as it was, in memory and on disk; in a provider the record is    *)
(* created or overwritten only by a successful issuance.                   *)
C5_Step ==
    /\ last'.resp.status \notin {0, 200} =>
          /\ last'.ret = Raise("Exception", last'.resp.status, last'.resp.text)
          /\ token_data' = token_data
          /\ file' = file
          /\ access_token' = access_token
    /\ (/\ proc = "fetcher" /\ proc' = "fetcher" /\ instances' = instances
        /\ token_data' # token_data
        /\ ~Falsy(token_data'))
          => /\ last'.resp.status = 200
             /\ token_data'.access_token = last'.token

C5_FailedIssuanceKeepsRecord == [][C5_Step]_vars

C5_Witness ==
    /\ last.op = "get_access_token"
    /\ last.force
    /\ last.resp.status = 401
    /\ last.ret = Raise("Exception", 401, "error")
    /\ get_valid_token(token_data, now).kind = "str"
    /\ file = FileJson(json_dump(token_data))

----------------------------------------------------------------------------
\* the file is missing, unreadable or structurally corrupt
CorruptFile(f) ==
    \/ f.kind # "json"
    \/ f.doc.type # "object"
    \/ ~(RecordKeys \subseteq {f.doc.members[i].key : i \in 1..Len(f.doc.members)})

(* C6: constructing a Keystore never fails, whatever the file holds; from  *)
(* a missing, unreadable or structurally corrupt file the Keystore starts  *)
(* empty: getTokenInfo().status is "no_token" and getValidToken() is       *)
(* absent.                                                                 *)
C6_CorruptStartsEmpty ==
    last.op = "TokenKeystore" =>
        /\ last.ret.kind # "raise"
        /\ CorruptFile(file) =>
              /\ get_token_info(token_data, now).status = "no_token"
              /\ get_valid_token(token_data, now) = RetNone

----------------------------------------------------------------------------
(* C7: persistence round trip.  After a mutating call whose write          *)
(* succeeded, the file read back equals the in-memory record; and a        *)
(* Keystore constructed from that file holds the same record (token,       *)
(* createdAt, expiresAt), so before expiresAt - 60 its getValidToken()     *)
(* is the stored token.                                                    *)
C7_WriteThrough ==
    (Up /\ last_save = "ok") =>
        /\ file.kind = "json"
        /\ load_keystore(file) = [raises |-> "", td |-> token_data]

C7_Restart ==
    (Up /\ last_save = "ok" /\ Constructed') =>
        /\ last'.ret.kind # "raise"
        /\ token_data' = token_data
        /\ (token_data.keys = RecordKeys
            /\ now' < token_data.expires_at - SAFETY_MARGIN)
              => get_valid_token(token_data', now') = RetStr(token_data.access_token)

C7_RoundTrip == []C7_WriteThrough /\ [][C7_Restart]_vars

C7_Witness ==
    /\ last.op = "TokenKeystore"
    /\ instances = 2
    /\ token_data.keys = RecordKeys
    /\ token_data.created_at = 1
    /\ get_valid_token(token_data, now) = RetStr("tB")

----------------------------------------------------------------------------
C8_InMemoryEmpty ==
    /\ token_data = EmptyDict
    /\ get_valid_token(token_data, now) = RetNone
    /\ is_token_valid(token_data, now) = RetBool(FALSE)
    /\ get_token_info(token_data, now).status = "no_token"

(* C8, as stated: after clearToken(), from any prior state, the slot is    *)
(* empty and the persisted state is the empty state.                       *)
C8_ClearedAndPersisted ==
    Cleared =>
        /\ C8_InMemoryEmpty
        /\ load_keystore(file) = [raises |-> "", td |-> EmptyDict]

(* C8, amended: after clearToken(), from any prior state and however often *)
(* it is applied, the in-memory slot is empty (getValidToken() absent,     *)
(* isTokenValid() false, status "no_token"); the persisted state is the    *)
(* empty state when the write succeeded (a failed write is only reported   *)
(* and can leave the old record in the file); a second clearToken leaves   *)
(* the in-memory slot as it is.                                            *)
C8_AfterClear ==
    Cleared =>
        /\ C8_InMemoryEmpty
        /\ last.ret = RetNone
        /\ last.save = "ok" => /\ file = FileJson(Object(<<>>))
                               /\ load_keystore(file).td = EmptyDict
        /\ last.save = "write_fails" => load_keystore(file).td = EmptyDict

C8_Idempotent ==
    /\ (Cleared' /\ last'.save = "open_fails") => file' = file
    /\ (Cleared /\ Cleared') =>
          /\ token_data' = token_data
          /\ (last.save = "ok" /\ last'.save = "ok") => file' = file

C8_ClearEmpties == []C8_AfterClear /\ [][C8_Idempotent]_vars

C8_Witness ==
    /\ last.op = "clear_token"
    /\ last.save = "open_fails"
    /\ token_data = EmptyDict
    /\ load_keystore(file).td.keys = RecordKeys

----------------------------------------------------------------------------
(* C9: a failure to write the keystore file never reaches the caller:      *)
(* storeToken and clearToken return normally, the in-memory record takes   *)
(* the new value, and a getAccessToken whose issuance succeeded returns    *)
(* the new token.                                                          *)
C9_WriteFailureSwallowed ==
    (last.save \in {"open_fails", "write_fails"}) =>
        /\ last.ret.kind # "raise"
        /\ last.op = "store_token" =>
              /\ last.ret = RetNone
              /\ token_data = store_record(last.token, last.expires_in, now)
        /\ Cleared => (last.ret = RetNone /\ token_data = EmptyDict)
        /\ last.op \in {"get_access_token", "ensure_valid_token"} =>
              /\ last.resp.status = 200
              /\ last.ret = RetStr(last.token)
              /\ access_token = last.token
              /\ token_data = store_record(last.token, last.expires_in, now)

C9_Witness ==
    /\ last.op = "get_access_token"
    /\ last.save = "write_fails"
    /\ file = File("bad_json")
    /\ last.ret = RetStr("tB")
    /\ token_data.access_token = "tB"

----------------------------------------------------------------------------
ReadCalls == {"get_valid_token", "is_token_valid", "get_token_info"}

(* C10: getValidToken, isTokenValid and getTokenInfo are pure reads: they  *)
(* leave the in-memory record and the file as they are and send no         *)
(* request; an expired record is not removed by reading it.                *)
C10_Step ==
    last'.op \in ReadCalls =>
        /\ token_data' = token_data
        /\ file' = file
        /\ requests' = requests
        /\ last_save' = last_save
        /\ now' = now

C10_ReadsArePure == [][C10_Step]_vars

C10_Witness ==
    /\ last.op = "get_valid_token"
    /\ last.ret = RetNone
    /\ token_data.keys = RecordKeys
    /\ now >= token_data.expires_at

----------------------------------------------------------------------------
(* The playlist client: SpotifyPlaylistFetcher.extract_playlist_id.        *)
(* A URL is a sequence of pieces of text; the pieces are chosen so that    *)
(* the two patterns' literals are whole pieces.                            *)

MaxUrlLen == 4

HostSpotify == "https://open.spotify.com"
HostOther == "https://example.com"
PlaylistPath == "/playlist/"
UriPrefix == "spotify:playlist:"
Alnum == {"a"}                      \* [a-zA-Z0-9]
UrlPieces == {HostSpotify, HostOther, PlaylistPath, UriPrefix, "a", "?"}

RECURSIVE SeqsUpTo(_, _)
SeqsUpTo(S, n) ==
    IF n = 0 THEN {<<>>}
    ELSE LET shorter == SeqsUpTo(S, n - 1)
         IN  shorter \cup {Append(q, x) : q \in shorter, x \in S}

Urls == SeqsUpTo(UrlPieces, MaxUrlLen)

\* the two patterns' literal parts, in the order the code tries them
Patterns == << <<HostSpotify, PlaylistPath>>, <<UriPrefix>> >>
PatternsAnyHost == << <<PlaylistPath>>, <<UriPrefix>> >>

\* the pattern's literal stands at position i and an id character follows
MatchesAt(url, lit, i) ==
    /\ i + Len(lit) <= Len(url)
    /\ SubSeq(url, i, i + Len(lit) - 1) = lit
    /\ url[i + Len(lit)] \in Alnum

\* ([a-zA-Z0-9]+) is greedy: the id characters from position i on
RECURSIVE IdRun(_, _)
IdRun(url, i) ==
    IF i > Len(url) \/ url[i] \notin Alnum THEN <<>>
    ELSE <<url[i]>> \o IdRun(url, i + 1)

\* re.search(pattern, url): the group of the leftmost match from i on, or <<>>
RECURSIVE re_search(_, _, _)
re_search(url, lit, i) ==
    IF i > Len(url) THEN <<>>
    ELSE IF MatchesAt(url, lit, i) THEN IdRun(url, i + Len(lit))
    ELSE re_search(url, lit, i + 1)

NoId == [kind |-> "raise", exc |-> "ValueError", id |-> <<>>]
IdOf(g) == [kind |-> "str", exc |-> "", id |-> g]

\* the loop over the patterns
RECURSIVE first_match(_, _, _)
first_match(url, pats, k) ==
    IF k > Len(pats) THEN NoId
    ELSE IF re_search(url, pats[k], 1) # <<>> THEN IdOf(re_search(url, pats[k], 1))
    ELSE first_match(url, pats, k + 1)

extract_playlist_id_any_host(url) == first_match(url, PatternsAnyHost, 1)

extract_playlist_id(url) == first_match(url, Patterns, 1)

UrlCall(url) == [pc |-> "url", url |-> url, ret |-> NoId]

(* SpotifyPlaylistFetcher.extract_playlist_id(playlist_url) *)
ExtractPlaylistId ==
    /\ client.pc = "url"
    /\ client' = [client EXCEPT !.pc = "url_done",
                                !.ret = extract_playlist_id(client.url)]
    /\ UNCHANGED vars

\* the keystore and the provider, while they do not run
KeystoreIdle ==
    /\ now = 0
    /\ file = File("missing")
    /\ proc = "down"
    /\ token_data = EmptyDict
    /\ access_token = NoStr
    /\ last_save = "none"
    /\ requests = 0
    /\ instances = 0
    /\ last = Call("init")

InitUrl ==
    /\ KeystoreIdle
    /\ client \in {UrlCall(u) : u \in Urls}
    /\ store = StoreIdle
    /\ main = MainIdle
    /\ peer = PeerIdle

NextUrl == ExtractPlaylistId /\ UNCHANGED <<store, main, peer>>

SpecUrl == InitUrl /\ [][NextUrl]_allvars

----------------------------------------------------------------------------
\* https://open.spotify.com/playlist/<id> stands somewhere in the input
HasUrlShape(url) ==
    \E i \in 1..Len(url) - 2 :
        url[i] = HostSpotify /\ url[i + 1] = PlaylistPath /\ url[i + 2] \in Alnum

\* spotify:playlist:<id> stands somewhere in the input
HasUriShape(url) ==
    \E i \in 1..Len(url) - 1 : url[i] = UriPrefix /\ url[i + 1] \in Alnum

\* an https URL that contains /playlist/<id>, whatever its host and path
HasHttpsPlaylistShape(url) ==
    /\ Len(url) >= 3
    /\ url[1] \in {HostSpotify, HostOther}
    /\ \E i \in 2..Len(url) - 1 : url[i] = PlaylistPath /\ url[i + 1] \in Alnum

\* g is the longest run of id characters that starts at position i
IsIdAt(url, i, g) ==
    /\ g # <<>>
    /\ i + Len(g) - 1 <= Len(url)
    /\ SubSeq(url, i, i + Len(g) - 1) = g
    /\ \A k \in 1..Len(g) : g[k] \in Alnum
    /\ (i + Len(g) <= Len(url)) => url[i + Len(g)] \notin Alnum

(* C19, as stated: the id is returned for every https URL containing       *)
(* /playlist/<id> and for spotify:playlist:<id>; every other input fails   *)
(* with the invalid-input error.                                           *)
C19_AnyHttpsUrl ==
    client.pc = "url_done" =>
        ((HasHttpsPlaylistShape(client.url) \/ HasUriShape(client.url))
            <=> client.ret.kind = "str")

(* C19, amended: extractPlaylistId returns the alphanumeric id for an      *)
(* input containing https://open.spotify.com/playlist/<id> (this host,     *)
(* /playlist/ directly after it) or spotify:playlist:<id>: the longest     *)
(* alphanumeric run after the leftmost occurrence, the URL form before     *)
(* the URI form; every other input, an https URL of another host or with   *)
(* another path before /playlist/ included, fails with the invalid-input   *)
(* error; nothing else changes and no request is sent.                     *)
C19_ExtractsId ==
    client.pc = "url_done" =>
        LET url == client.url
            ret == client.ret
        IN
        /\ requests = 0 /\ proc = "down" /\ file = File("missing")
        /\ (HasUrlShape(url) \/ HasUriShape(url)) <=> ret.kind = "str"
        /\ ret.kind # "str" => ret = NoId
        /\ HasUrlShape(url) =>
              \E i \in 1..Len(url) - 2 :
                  /\ url[i] = HostSpotify /\ url[i + 1] = PlaylistPath
                  /\ IsIdAt(url, i + 2, ret.id)
                  /\ \A j \in 1..i - 1 :
                        ~(url[j] = HostSpotify /\ url[j + 1] = PlaylistPath
                          /\ url[j + 2] \in Alnum)
        /\ (~HasUrlShape(url) /\ HasUriShape(url)) =>
              \E i \in 1..Len(url) - 1 :
                  /\ url[i] = UriPrefix
                  /\ IsIdAt(url, i + 1, ret.id)
                  /\ \A j \in 1..i - 1 : ~(url[j] = UriPrefix /\ url[j + 1] \in Alnum)

C19_Witness ==
    /\ client.pc = "url_done"
    /\ client.url = <<HostSpotify, PlaylistPath, "a", "?">>
    /\ client.ret = IdOf(<<"a">>)

----------------------------------------------------------------------------
(* The playlist client: SpotifyPlaylistFetcher.get_playlist_tracks.        *)
(* One step per request to the playlist endpoint.  An item of a page is    *)
(* "null" (its track payload is null), "noid" (a track without id) or the  *)
(* id of its track.                                                        *)

MaxPages == 2

DEFAULT_LIMIT == 50
Limits == {2, DEFAULT_LIMIT}

PageItems == { <<>>, <<"t1", "null">>, <<"null", "t2">>, <<"noid", "t1">> }

(* Answers of the playlist endpoint *)
PageResponses ==
    [status : {200}, items : PageItems, next : BOOLEAN, text : {"ok"}]
    \cup [status : {401, 500}, items : {<<>>}, next : {FALSE}, text : {"error"}]

NoTracks == [kind |-> "none", tracks |-> <<>>, exc |-> "", status |-> 0, text |-> ""]
Tracks(ts) == [kind |-> "list", tracks |-> ts, exc |-> "", status |-> 0, text |-> ""]
TracksRaise(e, status, text) ==
    [kind |-> "raise", tracks |-> <<>>, exc |-> e, status |-> status, text |-> text]

\* get_playlist_tracks(playlist_id, limit) about to be called
GptCall(limit) ==
    [pc |-> "ready", limit |-> limit, offset |-> 0, all_tracks |-> <<>>,
     bearer |-> NoStr,
     calls |-> <<>>,     \* the requests sent, in order: offset, status answered
     pages |-> <<>>,     \* the 200 answers received, in order
     ret |-> NoTracks]

\* line 186: the items whose track is not None
valid_tracks_unfiltered(items) == items

valid_tracks(items) == SelectSeq(items, LAMBDA it : it # "null")

\* line 179: the answer is a failure
page_failed_5xx(resp) == resp.status >= 500

page_failed(resp) == resp.status # 200

\* lines 156-163: ensure_valid_token() has returned or raised `ensured`
gpt_begin(cl, ensured, token) ==
    IF ensured.kind = "raise"
    THEN [cl EXCEPT !.pc = "raised",
                    !.ret = TracksRaise(ensured.exc, ensured.status, ensured.text)]
    ELSE [cl EXCEPT !.pc = "paging", !.bearer = token, !.offset = 0,
                    !.all_tracks = <<>>]

\* lines 165-195: one turn of the loop, the endpoint answering `resp`
gpt_page(cl, resp) ==
    LET sent == [cl EXCEPT !.calls = Append(cl.calls, [offset |-> cl.offset,
                                                       status |-> resp.status])] IN
    IF page_failed(resp)
    THEN [sent EXCEPT !.pc = "raised",
                      !.ret = TracksRaise("Exception", resp.status, resp.text)]
    ELSE LET got == [sent EXCEPT
                       !.pages = Append(cl.pages, [items |-> resp.items,
                                                   next |-> resp.next]),
                       !.all_tracks = cl.all_tracks \o valid_tracks(resp.items)]
         IN  IF ~resp.next
             THEN [got EXCEPT !.pc = "returned", !.ret = Tracks(got.all_tracks)]
             ELSE [got EXCEPT !.offset = cl.offset + cl.limit]

(* get_playlist_tracks: the call, up to the first request *)
GptStart ==
    /\ client.pc = "ready"
    /\ EnsureValidToken
    /\ client' = gpt_begin(client, last'.ret, access_token')

(* get_playlist_tracks: one request for a page and its answer *)
GptPage ==
    /\ client.pc = "paging"
    /\ Len(client.calls) < MaxPages
    /\ \E resp \in PageResponses : client' = gpt_page(client, resp)
    /\ UNCHANGED vars

PagingFiles == { File("missing"), FileJson(json_dump(store_record("tA", 62, 0))) }

InitPaging ==
    /\ now = 0
    /\ file \in PagingFiles
    /\ proc = "down"
    /\ token_data = EmptyDict
    /\ access_token = NoStr
    /\ last_save = "none"
    /\ requests = 0
    /\ instances = 0
    /\ last = Call("init")
    /\ client \in {GptCall(l) : l \in Limits}
    /\ store = StoreIdle
    /\ main = MainIdle
    /\ peer = PeerIdle

NextPaging ==
    \/ proc = "down" /\ NewFetcher /\ UNCHANGED xvars
    \/ GptStart /\ UNCHANGED <<store, main, peer>>
    \/ GptPage /\ UNCHANGED <<store, main, peer>>

SpecPaging == InitPaging /\ [][NextPaging]_allvars

----------------------------------------------------------------------------
\* the items of pages 1..k whose track payload is not null, in page order
RECURSIVE NonNullItems(_, _)
NonNullItems(pages, k) ==
    IF k = 0 THEN <<>>
    ELSE NonNullItems(pages, k - 1)
         \o SelectSeq(pages[k].items, LAMBDA it : it # "null")

GptRunning == client.pc \in {"paging", "returned", "raised"}

\* the call failed on a page request (not in ensure_valid_token)
PageFailed == client.pc = "raised" /\ client.calls # <<>>

(* C13: getPlaylistTracks requests offsets 0, limit, 2*limit, ..., one     *)
(* request per page up to and including the first page that reports no    *)
(* next page, then stops and returns, in page order, exactly the items of  *)
(* those pages whose track payload is not null.                            *)
C13_Paging ==
    GptRunning =>
        LET n == Len(client.calls)
            m == Len(client.pages)
        IN
        /\ \A k \in 1..n : client.calls[k].offset = (k - 1) * client.limit
        /\ m = Cardinality({k \in 1..n : client.calls[k].status = 200})
        /\ client.pc = "paging" =>
              /\ n = m
              /\ \A k \in 1..m : client.pages[k].next
              /\ client.ret = NoTracks
              /\ client.offset = n * client.limit
        /\ client.pc = "returned" =>
              /\ n = m /\ m >= 1
              /\ \A k \in 1..m - 1 : client.pages[k].next
              /\ ~client.pages[m].next
              /\ client.ret = Tracks(NonNullItems(client.pages, m))

C13_Witness ==
    /\ client.pc = "returned"
    /\ client.limit = DEFAULT_LIMIT
    /\ Len(client.calls) = 2
    /\ client.calls[2].offset = DEFAULT_LIMIT
    /\ client.pages[1].items = <<"t1", "null">>
    /\ client.pages[2].items = <<"null", "t2">>
    /\ client.ret = Tracks(<<"t1", "t2">>)

----------------------------------------------------------------------------
(* C14: a page request answered with a non-success status makes            *)
(* getPlaylistTracks fail with an error carrying the status and the body;  *)
(* no page request follows the failing one and none of the tracks of the   *)
(* earlier pages is returned.                                              *)
C14_Fails ==
    GptRunning =>
        LET n == Len(client.calls) IN
        /\ \A k \in 1..n - 1 : client.calls[k].status = 200
        /\ (n > 0 /\ client.calls[n].status # 200) =>
              /\ client.pc = "raised"
              /\ client.ret = TracksRaise("Exception", client.calls[n].status, "error")
              /\ client.ret.tracks = <<>>
        /\ PageFailed => client.calls[n].status # 200

C14_Stops == PageFailed => client' = client

C14_PageFailure == []C14_Fails /\ [][C14_Stops]_allvars

C14_Witness ==
    /\ PageFailed
    /\ Len(client.calls) = 2
    /\ client.pages[1].items = <<"t1", "null">>
    /\ client.all_tracks = <<"t1">>
    /\ client.ret = TracksRaise("Exception", 500, "error")

----------------------------------------------------------------------------
(* Record store writer: FirestoreManager.batch_add_tracks                  *)
(* (src/utils/firestore_manager.py).  store.db is the capability set once  *)
(* by _initialize_firebase; store.docs is the collection, one document per *)
(* track id; store.staged is the WriteBatch the call fills.                *)

MaxBatchLen == 2
TrackIds == {"t1", "t2"}

\* a document of the collection; added_at is the server's timestamp
NoTrackDoc == [exists |-> FALSE, track_name |-> "", added_at |-> 0]
OldTrackDoc == [exists |-> TRUE, track_name |-> "n0", added_at |-> 0]
Collections == [TrackIds -> {NoTrackDoc, OldTrackDoc}]

\* the dictionaries of tracks_data; track_id NoStr is a missing (falsy) id
TrackRecords ==
    { [track_id |-> NoStr, track_name |-> "n1"],
      [track_id |-> "t1", track_name |-> "n1"],
      [track_id |-> "t1", track_name |-> "n2"],
      [track_id |-> "t2", track_name |-> "n1"] }
TrackBatches == SeqsUpTo(TrackRecords, MaxBatchLen)

Counts(s, f, k) == [success |-> s, failed |-> f, skipped |-> k]

BatchCall(db, docs, tracks_data, skip_existing) ==
    [ pc |-> "ready", db |-> db, docs |-> docs, before |-> docs, clock |-> 1,
      tracks_data |-> tracks_data, skip_existing |-> skip_existing,
      idx |-> 1, staged |-> <<>>, probed |-> <<>>, set_calls |-> <<>>,
      success_count |-> 0, failed_count |-> 0, skipped_count |-> 0,
      path |-> "none", ret |-> Counts(0, 0, 0) ]

check_track_exists_blind(db, docs, track_id, probe) == FALSE

\* probe "error": doc_ref.get() raises, caught, reported as not existing
check_track_exists(db, docs, track_id, probe) ==
    IF ~db THEN FALSE
    ELSE IF probe = "error" THEN FALSE
    ELSE docs[track_id].exists

batch_begin(st, batch) ==
    IF ~st.db
    THEN [st EXCEPT !.pc = "returned", !.path = "unavailable",
                    !.ret = Counts(0, 0, 0)]
    ELSE IF batch = "raises"
    THEN [st EXCEPT !.pc = "returned", !.path = "aborted",
                    !.ret = Counts(0, Len(st.tracks_data), 0)]
    ELSE [st EXCEPT !.pc = "loop"]

batch_record_counts_skip(st, probe, set) ==
    [st EXCEPT !.idx = @ + 1, !.skipped_count = @ + 1,
               !.probed = Append(@, "none"), !.set_calls = Append(@, "none")]

\* one iteration of the for loop; set "raises": preparing the write raises
batch_record(st, probe, set) ==
    LET track_data == st.tracks_data[st.idx]
        track_id == track_data.track_id
        next == [st EXCEPT !.idx = @ + 1]
    IN  IF track_id = NoStr
        THEN [next EXCEPT !.failed_count = @ + 1,
                          !.probed = Append(@, "none"),
                          !.set_calls = Append(@, "none")]
        ELSE IF st.skip_existing
                /\ check_track_exists(st.db, st.docs, track_id, probe)
        THEN [next EXCEPT !.skipped_count = @ + 1,
                          !.probed = Append(@, probe),
                          !.set_calls = Append(@, "none")]
        ELSE LET seen == [next EXCEPT
                            !.probed = Append(@, IF st.skip_existing
                                                 THEN probe ELSE "none"),
                            !.set_calls = Append(@, set)]
             IN  IF set = "raises"
                 THEN [seen EXCEPT !.failed_count = @ + 1]
                 ELSE [seen EXCEPT !.staged = Append(@, track_data),
                                   !.success_count = @ + 1]

commit_apply_last_only(docs, staged, clock) ==
    [ t \in TrackIds |->
        IF staged # <<>> /\ staged[Len(staged)].track_id = t
        THEN [exists |-> TRUE, track_name |-> staged[Len(staged)].track_name,
              added_at |-> clock]
        ELSE docs[t] ]

\* the collection after the staged writes, applied in order at time clock
commit_apply(docs, staged, clock) ==
    [ t \in TrackIds |->
        LET W == {k \in 1..Len(staged) : staged[k].track_id = t}
        IN  IF W = {} THEN docs[t]
            ELSE LET k == CHOOSE k \in W : \A j \in W : j <= k
                 IN  [exists |-> TRUE, track_name |-> staged[k].track_name,
                      added_at |-> clock] ]

batch_commit_keeps_counts(st, commit) ==
    LET counts == Counts(st.success_count, st.failed_count, st.skipped_count)
    IN  IF st.success_count > 0
        THEN IF commit = "fails"
             THEN [st EXCEPT !.pc = "returned", !.path = "commit_failed",
                             !.ret = counts]
             ELSE [st EXCEPT !.pc = "returned", !.path = "committed",
                             !.docs = commit_apply(@, st.staged, st.clock),
                             !.clock = @ + 1,
                             !.ret = counts]
        ELSE [st EXCEPT !.pc = "returned", !.path = "nothing_staged",
                        !.ret = counts]

batch_commit(st, commit) ==
    LET counts == Counts(st.success_count, st.failed_count, st.skipped_count)
    IN  IF st.success_count > 0
        THEN IF commit = "fails"
             THEN [st EXCEPT !.pc = "returned", !.path = "commit_failed",
                             !.ret = Counts(0, Len(st.tracks_data), 0)]
             ELSE [st EXCEPT !.pc = "returned", !.path = "committed",
                             !.docs = commit_apply(@, st.staged, st.clock),
                             !.clock = @ + 1,
                             !.ret = counts]
        ELSE [st EXCEPT !.pc = "returned", !.path = "nothing_staged",
                        !.ret = counts]

BatchStart ==
    /\ store.pc = "ready"
    /\ \E batch \in {"ok", "raises"} : store' = batch_begin(store, batch)
    /\ UNCHANGED vars

BatchRecord ==
    /\ store.pc = "loop"
    /\ store.idx <= Len(store.tracks_data)
    /\ \E probe \in {"answers", "error"}, set \in {"ok", "raises"} :
          store' = batch_record(store, probe, set)
    /\ UNCHANGED vars

BatchCommit ==
    /\ store.pc = "loop"
    /\ store.idx > Len(store.tracks_data)
    /\ \E commit \in {"ok", "fails"} : store' = batch_commit(store, commit)
    /\ UNCHANGED vars

InitBatch ==
    /\ KeystoreIdle
    /\ client = ClientIdle
    /\ store \in { BatchCall(db, docs, td, skip) :
                     db \in BOOLEAN, docs \in Collections,
                     td \in TrackBatches, skip \in BOOLEAN }
    /\ main = MainIdle
    /\ peer = PeerIdle

NextBatch ==
    \/ BatchStart /\ UNCHANGED <<client, main, peer>>
    \/ BatchRecord /\ UNCHANGED <<client, main, peer>>
    \/ BatchCommit /\ UNCHANGED <<client, main, peer>>

SpecBatch == InitBatch /\ [][NextBatch]_allvars

----------------------------------------------------------------------------
(* Vocabulary of the record store claims.                                  *)

BatchDone == store.pc = "returned"
Positions == 1..Len(store.tracks_data)
IdAt(k) == store.tracks_data[k].track_id
\* the record has an id that was in the collection when the call began
ExistsAt(k) == IdAt(k) # NoStr /\ store.before[IdAt(k)].exists
\* ... and its existence probe answered (it did not end in an error)
ReportedAt(k) == ExistsAt(k) /\ store.probed[k] = "answers"
\* the call went through the whole loop and returned its counters
Counted == BatchDone /\ store.path \in {"committed", "nothing_staged"}
\* the call ended in the handler of the whole operation
Abandoned == BatchDone /\ store.path \in {"aborted", "commit_failed"}

SkippedAt == {k \in Positions : store.skip_existing /\ ReportedAt(k)}
FailedAt ==
    {k \in Positions \ SkippedAt :
        IdAt(k) = NoStr \/ store.set_calls[k] = "raises"}
SuccessAt == Positions \ (SkippedAt \cup FailedAt)

RECURSIVE TakenUpTo(_)
TakenUpTo(k) ==
    IF k = 0 THEN <<>>
    ELSE IF k \in SuccessAt
         THEN Append(TakenUpTo(k - 1), store.tracks_data[k])
         ELSE TakenUpTo(k - 1)

----------------------------------------------------------------------------
(* C15 as stated: on an available store every call classifies each record  *)
(* by its id alone: no id failed, id already in the store with             *)
(* skipExisting skipped, every other record success.                       *)
C15_EveryCallClassifies ==
    (BatchDone /\ store.db) =>
        LET skipped == {k \in Positions : store.skip_existing /\ ExistsAt(k)}
            failed == {k \in Positions : IdAt(k) = NoStr}
        IN  store.ret = Counts(Cardinality(Positions \ (skipped \cup failed)),
                               Cardinality(failed), Cardinality(skipped))

(* C15: on an available store the counters of batchAddTracks always add up *)
(* to the number of input records.  A call that returns its counters has   *)
(* classified every record once, in input order: no id, failed; else, with *)
(* skipExisting and a probe that reports the id, skipped; else staged and  *)
(* success, or failed when preparing the write raises.  A call whose batch *)
(* creation or commit fails reports every record as failed.  One record    *)
(* without id and one valid new record, committed, give {1, 1, 0} and      *)
(* exactly the valid record in the store.                                  *)
C15_Classification ==
    /\ store.pc = "loop" =>
          /\ store.success_count + store.failed_count + store.skipped_count
                = store.idx - 1
          /\ Len(store.probed) = store.idx - 1
    /\ (BatchDone /\ store.db) =>
          /\ store.ret.success + store.ret.failed + store.ret.skipped
                = Len(store.tracks_data)
          /\ Abandoned => store.ret = Counts(0, Len(store.tracks_data), 0)
          /\ Counted =>
                /\ store.ret = Counts(Cardinality(SuccessAt),
                                      Cardinality(FailedAt),
                                      Cardinality(SkippedAt))
                /\ store.staged = TakenUpTo(Len(store.tracks_data))
          /\ ( /\ store.path = "committed"
               /\ store.tracks_data = <<[track_id |-> NoStr, track_name |-> "n1"],
                                        [track_id |-> "t2", track_name |-> "n1"]>>
               /\ \A t \in TrackIds : ~store.before[t].exists )
             => /\ store.ret = Counts(1, 1, 0)
                /\ {t \in TrackIds : store.docs[t].exists} = {"t2"}
                /\ store.docs["t2"].track_name = "n1"

C15_Witness ==
    /\ store.path = "committed"
    /\ store.tracks_data = <<[track_id |-> NoStr, track_name |-> "n1"],
                             [track_id |-> "t2", track_name |-> "n1"]>>
    /\ \A t \in TrackIds : ~store.before[t].exists
    /\ store.ret = Counts(1, 1, 0)
    /\ store.docs["t2"].exists

----------------------------------------------------------------------------
(* C16 as stated: with skipExisting every record whose id was already in   *)
(* the store is counted in skipped and its document is left as it was.     *)
C16_ExistingAlwaysSkipped ==
    (BatchDone /\ store.db /\ store.skip_existing) =>
        \A k \in Positions :
            ExistsAt(k) =>
                /\ store.ret.skipped >= 1
                /\ store.docs[IdAt(k)] = store.before[IdAt(k)]

(* C16: with skipExisting, a record whose id was already in the store and  *)
(* whose existence probe answers is counted in skipped by a call that      *)
(* returns its counters, and is not staged; the document of that id is     *)
(* left as it was when the probe of every record of that id answers,       *)
(* whatever the other records are.  A probe that ends in an error reports  *)
(* the id as new, so the record is staged and the document overwritten; a  *)
(* call whose commit fails counts the record as failed, not skipped.       *)
C16_SkipsExisting ==
    (BatchDone /\ store.db /\ store.skip_existing) =>
        /\ Abandoned => (store.ret.skipped = 0 /\ store.docs = store.before)
        /\ ~Abandoned =>
              \A k \in Positions :
                  LET same == {j \in Positions : IdAt(j) = IdAt(k)} IN
                  /\ ReportedAt(k) =>
                        /\ k \in SkippedAt
                        /\ store.ret.skipped = Cardinality(SkippedAt)
                        /\ store.ret.skipped >= 1
                  /\ (ExistsAt(k) /\ \A j \in same : ReportedAt(j)) =>
                        store.docs[IdAt(k)] = store.before[IdAt(k)]
                  /\ ( /\ ExistsAt(k)
                       /\ store.path = "committed"
                       /\ \E j \in same : ~ReportedAt(j) /\ j \in SuccessAt )
                     => store.docs[IdAt(k)].added_at # store.before[IdAt(k)].added_at

C16_Witness ==
    /\ store.path = "committed"
    /\ store.skip_existing
    /\ store.tracks_data = <<[track_id |-> "t1", track_name |-> "n1"],
                             [track_id |-> "t2", track_name |-> "n1"]>>
    /\ store.before["t1"] = OldTrackDoc
    /\ ~store.before["t2"].exists
    /\ store.probed = <<"answers", "answers">>
    /\ store.ret = Counts(1, 0, 1)
    /\ store.docs["t1"] = OldTrackDoc
    /\ store.docs["t2"].exists

----------------------------------------------------------------------------
(* C17: the staged upserts of one batchAddTracks call are applied all or   *)
(* nothing.  Nothing is written before the commit; a commit is attempted   *)
(* only when at least one record was staged; after a successful commit the *)
(* document of every staged id holds the fields of the last record staged  *)
(* for it and the other documents are as before; after a failed commit the *)
(* store is as before the call and the result reports success 0.           *)
C17_AllOrNothing ==
    /\ store.pc \in {"ready", "loop"} => store.docs = store.before
    /\ BatchDone =>
          /\ store.path \in {"committed", "commit_failed"}
                => Len(store.staged) > 0
          /\ store.path \in {"nothing_staged", "aborted", "unavailable"}
                => (store.staged = <<>> /\ store.docs = store.before)
          /\ store.path = "committed" =>
                /\ store.ret.success = Len(store.staged)
                /\ \A k \in 1..Len(store.staged) :
                      LET t == store.staged[k].track_id
                          later == {j \in k + 1..Len(store.staged) :
                                       store.staged[j].track_id = t}
                      IN  /\ store.docs[t].exists
                          /\ store.docs[t].added_at > store.before[t].added_at
                          /\ later = {} =>
                                store.docs[t].track_name
                                   = store.staged[k].track_name
                /\ \A t \in TrackIds :
                      (\A k \in 1..Len(store.staged) :
                           store.staged[k].track_id # t)
                         => store.docs[t] = store.before[t]
          /\ store.path = "commit_failed" =>
                /\ store.docs = store.before
                /\ store.ret.success = 0
          /\ store.ret.success > 0 => store.path = "committed"

C17_Witness ==
    /\ store.path = "commit_failed"
    /\ Len(store.staged) = 2
    /\ store.ret = Counts(0, 2, 0)
    /\ store.docs = store.before

----------------------------------------------------------------------------
(* C18 as stated: on an unavailable store batchAddTracks raises nothing,   *)
(* writes nothing and reports the records it could not write in failed: a  *)
(* non-empty input is not reported as zero failures.                       *)
C18_FailureReported ==
    (BatchDone /\ ~store.db) =>
        /\ store.docs = store.before
        /\ Len(store.tracks_data) > 0 => store.ret.failed > 0

----------------------------------------------------------------------------
(* Token lifecycle, as the provider observes it through its keystore.      *)

LifeState(td, t) ==
    IF Falsy(td) THEN "Absent"
    ELSE IF is_token_valid(td, t).kind = "True" THEN "Valid"
    ELSE "Expired"

\* the latest call of the provider was answered with a token
Issued ==
    /\ proc = "fetcher"
    /\ last.op \in {"get_access_token", "ensure_valid_token"}
    /\ last.resp.status = 200

\* a step of one provider instance
SameProvider ==
    proc = "fetcher" /\ proc' = "fetcher" /\ instances' = instances

(* C20 as stated: every successful issuance, for any advertised lifetime,  *)
(* leaves the keystore in the Valid state.                                 *)
C20_IssuanceGivesValid == Issued => LifeState(token_data, now) = "Valid"

(* C20: a successful issuance stores the token with the advertised         *)
(* lifetime, 3600 when the authority omits it, and leaves the keystore     *)
(* Valid exactly when that lifetime exceeds the safety margin of 60 s,     *)
(* Expired otherwise.  Within one provider instance Valid becomes Expired  *)
(* only by time reaching expiresAt - 60 or by an issuance with a lifetime  *)
(* of at most 60 s, and Absent or Expired becomes Valid only by a          *)
(* successful issuance.                                                    *)
C20_Issued ==
    Issued =>
        /\ last.lifetime_omitted => last.expires_in = DEFAULT_EXPIRES_IN
        /\ token_data = store_record(last.token, last.expires_in, now)
        /\ LifeState(token_data, now) =
              IF last.expires_in > SAFETY_MARGIN THEN "Valid" ELSE "Expired"

C20_Step ==
    SameProvider =>
        LET before == LifeState(token_data, now)
            after == LifeState(token_data', now')
            issued == /\ last'.op \in {"get_access_token", "ensure_valid_token"}
                      /\ last'.sent = 1
                      /\ last'.resp.status = 200
        IN  /\ (before = "Valid" /\ after = "Expired") =>
                  \/ /\ now' > now
                     /\ token_data' = token_data
                     /\ now' >= get_expires_at(token_data) - SAFETY_MARGIN
                  \/ issued /\ last'.expires_in <= SAFETY_MARGIN
            /\ (before # "Valid" /\ after = "Valid") =>
                  issued /\ last'.expires_in > SAFETY_MARGIN
            /\ (before = "Valid" /\ after = "Absent") =>
                  last'.op = "clear_keystore"

C20_Lifecycle == []C20_Issued /\ [][C20_Step]_allvars

C20_Witness ==
    /\ Issued
    /\ last.op = "ensure_valid_token"
    /\ last.lifetime_omitted
    /\ last.expires_in = DEFAULT_EXPIRES_IN
    /\ now > 0
    /\ LifeState(token_data, now) = "Valid"

----------------------------------------------------------------------------
(* The process entry point: main() of src/main.py, and                     *)
(* fetch_and_print_playlist_tracks, which it calls.  main.pc is the        *)
(* statement main() is at; "escaped": an exception left main(), at         *)
(* main.line; main.caught is the exception the handler of                  *)
(* fetch_and_print_playlist_tracks printed.                                *)

MainUrls == { <<HostSpotify, PlaylistPath, "a">>, <<HostOther, PlaylistPath, "a">> }
MainFiles ==
    { File("missing"), FileJson(Array(1)),
      FileJson(json_dump(store_record("tA", 62, 0))),
      FileJson(json_dump(store_record("tB", 1, 0))) }
MainDocs == [t \in TrackIds |-> IF t = "t1" THEN OldTrackDoc ELSE NoTrackDoc]

\* the answers of the playlist endpoint during a run of main()
MainPageResponses ==
    [status : {200}, items : {<<"noid", "null">>, <<"t1", "t2">>},
     next : BOOLEAN, text : {"ok"}]
    \cup [status : {500}, items : {<<>>}, next : {FALSE}, text : {"error"}]

NoCaught == [exc |-> "", status |-> 0]
MainCall(url) ==
    [pc |-> "construct", url |-> url,
     playlist_id |-> [kind |-> "none", exc |-> "", id |-> <<>>],
     caught |-> NoCaught, escaped |-> "", line |-> 0, batches |-> 0,
     \* what the run has seen: a valid token in the file at the start, an
     \* issuance the authority rejected, a held token past its margin
     held_valid |-> FALSE, rejected |-> FALSE, lapsed |-> FALSE]

\* the firestore manager of the fetcher, batch_add_tracks not called
StoreOf(db, docs) == [BatchCall(db, docs, <<>>, TRUE) EXCEPT !.pc = "idle"]

\* main() goes on at `pc`, or ends with the exception `ret` raised at `line`
main_after(m, ret, pc, line) ==
    IF ret.kind = "raise"
    THEN [m EXCEPT !.pc = "escaped", !.escaped = ret.exc, !.line = line]
    ELSE [m EXCEPT !.pc = pc]

\* ensure_valid_token() was called by the step: what the run has seen
ensure_noted(m) ==
    [m EXCEPT
       !.rejected = @ \/ (last'.sent = 1 /\ last'.resp.status # 200),
       !.lapsed = @ \/ ( /\ ~Falsy(token_data)
                          /\ is_token_valid(token_data, now).kind # "True" )]

\* line 277: an exception inside the try block is printed; main() goes on
fetch_after(m, kind, exc, status, pc) ==
    IF kind = "raise"
    THEN [m EXCEPT !.pc = "status2", !.caught = [exc |-> exc, status |-> status]]
    ELSE [m EXCEPT !.pc = pc]

\* lines 244-264: the records of the tracks that have an id
RECURSIVE tracks_data_of(_)
tracks_data_of(ts) ==
    IF ts = <<>> THEN <<>>
    ELSE IF Head(ts) \in TrackIds
         THEN <<[track_id |-> Head(ts), track_name |-> "n1"]>>
                 \o tracks_data_of(Tail(ts))
         ELSE tracks_data_of(Tail(ts))

\* the for loop of batch_add_tracks, every probe and write answering alike
RECURSIVE batch_loop(_, _, _)
batch_loop(st, probe, set) ==
    IF st.idx > Len(st.tracks_data) THEN st
    ELSE batch_loop(batch_record(st, probe, set), probe, set)

\* one whole call of batch_add_tracks
batch_add_tracks(st, batch, probe, set, commit) ==
    LET begun == batch_begin(st, batch) IN
    IF begun.pc = "returned" THEN begun
    ELSE batch_commit(batch_loop(begun, probe, set), commit)

(* main.py:18  fetcher = SpotifyPlaylistFetcher(CLIENT_ID, CLIENT_SECRET) *)
MainConstruct ==
    /\ main.pc = "construct"
    /\ NewFetcher
    /\ main' = [main_after(main, last'.ret, "status1", 18) EXCEPT
                   !.held_valid =
                      get_valid_token(load_keystore(file).td, now).kind = "str"]
    /\ UNCHANGED <<client, store, peer>>

(* main.py:20, 24, 32  fetcher.show_keystore_status() *)
MainShowStatus ==
    /\ main.pc \in {"status1", "status2", "status3"}
    /\ ShowKeystoreStatus
    /\ main' = main_after(main, last'.ret,
                          CASE main.pc = "status1" -> "fetch_ensure"
                            [] main.pc = "status2" -> "reuse"
                            [] OTHER -> "done",
                          CASE main.pc = "status1" -> 20
                            [] main.pc = "status2" -> 24
                            [] OTHER -> 32)
    /\ UNCHANGED <<client, store, peer>>

(* fetch_and_print_playlist_tracks, line 228: self.ensure_valid_token() *)
FetchEnsure ==
    /\ main.pc = "fetch_ensure"
    /\ EnsureValidToken
    /\ main' = ensure_noted(fetch_after(main, last'.ret.kind, last'.ret.exc,
                                        last'.ret.status, "fetch_extract"))
    /\ UNCHANGED <<client, store, peer>>

(* line 232: playlist_id = self.extract_playlist_id(playlist_url) *)
FetchExtract ==
    /\ main.pc = "fetch_extract"
    /\ LET r == extract_playlist_id(main.url) IN
       /\ main' = [fetch_after(main, r.kind, r.exc, 0, "fetch_tracks")
                     EXCEPT !.playlist_id = r]
       /\ client' = IF r.kind = "raise" THEN client ELSE GptCall(DEFAULT_LIMIT)
    /\ UNCHANGED <<store, peer>>
    /\ UNCHANGED vars

(* line 236: get_playlist_tracks(playlist_id), up to its first request *)
FetchTracksStart ==
    /\ main.pc = "fetch_tracks"
    /\ GptStart
    /\ main' = ensure_noted(fetch_after(main, client'.ret.kind, client'.ret.exc,
                                        client'.ret.status, "fetch_tracks"))
    /\ UNCHANGED <<store, peer>>

(* line 236: get_playlist_tracks(playlist_id), one page *)
FetchTracksPage ==
    /\ main.pc = "fetch_tracks"
    /\ client.pc = "paging"
    /\ Len(client.calls) < MaxPages
    /\ \E resp \in MainPageResponses : client' = gpt_page(client, resp)
    /\ UNCHANGED vars
    /\ main' = fetch_after(main, client'.ret.kind, client'.ret.exc,
                           client'.ret.status,
                           IF client'.pc = "returned" THEN "fetch_store"
                           ELSE "fetch_tracks")
    /\ UNCHANGED <<store, peer>>

FetchStore_per_page ==
    /\ main.pc = "fetch_tracks"
    /\ client.pc = "paging"
    /\ tracks_data_of(client.all_tracks) # <<>>
    /\ \E probe \in {"answers", "error"}, commit \in {"ok", "fails"} :
          store' = batch_add_tracks(
                      BatchCall(store.db, store.docs,
                                tracks_data_of(client.all_tracks), TRUE),
                      "ok", probe, "ok", commit)
    /\ main' = [main EXCEPT !.batches = @ + 1]
    /\ UNCHANGED <<client, peer>>
    /\ UNCHANGED vars

(* lines 239-275: the records are built and, if there is one, written with *)
(* batch_add_tracks; the track list is printed                             *)
FetchStore ==
    /\ main.pc = "fetch_store"
    /\ LET tracks_data == tracks_data_of(client.ret.tracks) IN
       IF tracks_data # <<>>
       THEN /\ \E probe \in {"answers", "error"}, commit \in {"ok", "fails"} :
                 store' = batch_add_tracks(
                             BatchCall(store.db, store.docs, tracks_data, TRUE),
                             "ok", probe, "ok", commit)
            /\ main' = [main EXCEPT !.pc = "status2", !.batches = @ + 1]
       ELSE /\ store' = store
            /\ main' = [main EXCEPT !.pc = "status2"]
    /\ UNCHANGED <<client, peer>>
    /\ UNCHANGED vars

(* main.py:30  fetcher.ensure_valid_token() *)
MainReuse ==
    /\ main.pc = "reuse"
    /\ EnsureValidToken
    /\ main' = ensure_noted(main_after(main, last'.ret, "status3", 30))
    /\ UNCHANGED <<client, store, peer>>

MainRunning == main.pc \notin {"done", "escaped"}

InitMain ==
    /\ now = 0
    /\ file \in MainFiles
    /\ proc = "down"
    /\ token_data = EmptyDict
    /\ access_token = NoStr
    /\ last_save = "none"
    /\ requests = 0
    /\ instances = 0
    /\ last = Call("init")
    /\ client = ClientIdle
    /\ store \in {StoreOf(db, MainDocs) : db \in BOOLEAN}
    /\ main \in {MainCall(u) : u \in MainUrls}
    /\ peer = PeerIdle

NextMain ==
    \/ MainRunning /\ Tick /\ UNCHANGED xvars
    \/ MainConstruct
    \/ MainShowStatus
    \/ FetchEnsure
    \/ FetchExtract
    \/ FetchTracksStart
    \/ FetchTracksPage
    \/ FetchStore
    \/ MainReuse

SpecMain == InitMain /\ [][NextMain]_allvars

----------------------------------------------------------------------------
(* C11 as stated: an issuance the authority rejects is caught and printed  *)
(* wherever in the run it happens; it does not leave main().               *)
C11_TokenFailureCaught ==
    ( /\ last.op = "ensure_valid_token"
      /\ last.ret.kind = "raise"
      /\ last.resp.status \in {401, 500} )
    => main.pc # "escaped"

----------------------------------------------------------------------------
(* Two processes on one keystore file.  Each process has its own           *)
(* TokenKeystore and SpotifyPlaylistFetcher object (peer.procs[p]); the    *)
(* file and the clock are shared.  _save_keystore is two steps for the     *)
(* other process: open(path, 'w') truncates the file, and the document     *)
(* reaches it when the file is closed.  peer.file_len is the length of the *)
(* file (0 empty, 1 the document "{}", 2 a record); peer.issued is the set *)
(* of tokens the authority has issued, with their expiry and the process   *)
(* that asked; peer.ret is what the latest call returned, and to which     *)
(* process.                                                                *)

MaxIssued == 2
MaxStarts == 2
Procs == {1, 2}

SharedResponses ==
    [status : {200}, access_token : Tokens, has_expires_in : {TRUE},
     expires_in : {60, 62}, text : {"ok"}]
    \cup [status : {401}, access_token : {NoStr}, has_expires_in : {FALSE},
          expires_in : {0}, text : {"error"}]

NoRet == [p |-> 0, via |-> "none", token |-> NoStr, expires_at |-> 0]
Ret(p, via, token, expires_at) ==
    [p |-> p, via |-> via, token |-> token, expires_at |-> expires_at]

ProcDown ==
    [pc |-> "down", token_data |-> EmptyDict, access_token |-> NoStr]

SharedStart ==
    [procs |-> [p \in Procs |-> ProcDown], issued |-> {}, file_len |-> 0,
     starts |-> 0, ret |-> NoRet]

\* the token of the authority's next answer
next_token(n) == IF n % 2 = 0 THEN "tA" ELSE "tB"

\* length of the text json.dump writes for the dict
doc_len(td) == IF td = EmptyDict THEN 1 ELSE 2

\* TokenKeystore.__init__ and _load_cached_token, in a new process
shared_construct(pr, f, t) ==
    LET r == load_keystore(f)
        c == get_valid_token(r.td, t)
    IN  IF r.raises # "" \/ c.kind = "raise"
        THEN pr
        ELSE [pr EXCEPT !.pc = "idle", !.token_data = r.td,
                        !.access_token = c.str]

needs_token_unchecked(pr, t) == pr.access_token = NoStr

\* ensure_valid_token, line 98
needs_token(pr, t) ==
    pr.access_token = NoStr \/ is_token_valid(pr.token_data, t).kind # "True"

\* open(path, 'w') of _save_keystore: the file is empty until the close
begin_save(pr) == [pr EXCEPT !.pc = "writing"]

\* the file after the document of length len was written from its start
overlay(doc, len, f, f_len) ==
    IF len >= f_len THEN FileJson(doc) ELSE File("bad_json")

SharedConstruct(p) ==
    /\ peer.procs[p].pc = "down"
    /\ peer.starts < MaxStarts
    /\ peer' = [peer EXCEPT !.procs[p] = shared_construct(@, file, now),
                            !.starts = @ + 1,
                            !.ret = NoRet]
    /\ UNCHANGED <<now, file, requests, last>>

\* the process ends, also in the middle of a write
SharedExit(p) ==
    /\ peer.procs[p].pc \in {"idle", "writing"}
    /\ peer.starts < MaxStarts
    /\ peer' = [peer EXCEPT !.procs[p] = ProcDown, !.ret = NoRet]
    /\ UNCHANGED <<now, file, requests, last>>

(* ensure_valid_token() in process p, up to the open() of the save *)
SharedEnsure(p) ==
    LET pr == peer.procs[p] IN
    /\ pr.pc = "idle"
    /\ IF ~needs_token(pr, now)
       THEN /\ peer' = [peer EXCEPT !.ret =
                          Ret(p, "cache", pr.access_token,
                              get_expires_at(pr.token_data))]
            /\ UNCHANGED <<file, requests>>
       ELSE /\ requests < MaxIssued
            /\ requests' = requests + 1
            /\ \E resp \in SharedResponses :
                 IF issuance_ok(resp)
                 THEN LET td == store_record(resp.access_token,
                                             expires_in_of(resp), now)
                          got == [pr EXCEPT
                                    !.token_data = td,
                                    !.access_token = resp.access_token]
                      IN  /\ resp.access_token = next_token(requests)
                          /\ peer' = [peer EXCEPT
                                        !.procs[p] = begin_save(got),
                                        !.issued = @ \cup
                                           {[token |-> resp.access_token,
                                             expires_at |-> get_expires_at(td),
                                             by |-> p]},
                                        !.file_len = 0,
                                        !.ret = Ret(p, "issue", resp.access_token,
                                                    get_expires_at(td))]
                          /\ file' = File("bad_json")
                 ELSE /\ peer' = [peer EXCEPT !.ret = Ret(p, "raise", NoStr, 0)]
                      /\ file' = file
    /\ UNCHANGED <<now, last>>

(* keystore.get_valid_token() in process p *)
SharedRead(p) ==
    LET pr == peer.procs[p] IN
    /\ pr.pc = "idle"
    /\ peer' = [peer EXCEPT !.ret =
                  Ret(p, "read", get_valid_token(pr.token_data, now).str,
                      get_expires_at(pr.token_data))]
    /\ UNCHANGED <<now, file, requests, last>>

(* clear_keystore() in process p, up to the open() of the save *)
SharedClear(p) ==
    LET pr == peer.procs[p] IN
    /\ pr.pc = "idle"
    /\ peer' = [peer EXCEPT
                  !.procs[p] = begin_save(
                      [pr EXCEPT !.token_data = clear_record(pr.token_data)]),
                  !.file_len = 0,
                  !.ret = NoRet]
    /\ file' = File("bad_json")
    /\ UNCHANGED <<now, requests, last>>

(* the write of process p reaches the file; the call returns *)
SharedWriteFinish(p) ==
    LET pr == peer.procs[p] IN
    /\ pr.pc = "writing"
    /\ file' = overlay(json_dump(pr.token_data), doc_len(pr.token_data),
                       file, peer.file_len)
    /\ peer' = [peer EXCEPT
                  \* clear_keystore: self.access_token = None after clear_token
                  !.procs[p] = [pr EXCEPT
                                  !.pc = "idle",
                                  !.access_token = IF pr.token_data = EmptyDict
                                                   THEN NoStr ELSE @],
                  !.file_len = Max(doc_len(pr.token_data), @),
                  !.ret = NoRet]
    /\ UNCHANGED <<now, requests, last>>

InitShared ==
    /\ KeystoreIdle
    /\ client = ClientIdle
    /\ store = StoreIdle
    /\ main = MainIdle
    /\ peer = SharedStart

SharedFrame == UNCHANGED <<proc, token_data, access_token, last_save, instances,
                           client, store, main>>

NextShared ==
    \/ Tick /\ peer' = [peer EXCEPT !.ret = NoRet] /\ UNCHANGED <<client, store, main>>
    \/ \E p \in Procs : SharedConstruct(p) /\ SharedFrame
    \/ \E p \in Procs : SharedExit(p) /\ SharedFrame
    \/ \E p \in Procs : SharedEnsure(p) /\ SharedFrame
    \/ \E p \in Procs : SharedRead(p) /\ SharedFrame
    \/ \E p \in Procs : SharedClear(p) /\ SharedFrame
    \/ \E p \in Procs : SharedWriteFinish(p) /\ SharedFrame

SpecShared == InitShared /\ [][NextShared]_allvars

----------------------------------------------------------------------------
(* Vocabulary of the shared-file claim.                                    *)

\* the latest call handed a token to its caller
TokenReturned ==
    peer.ret.via \in {"cache", "read", "issue"} /\ peer.ret.token # NoStr

\* the authority issued this token with this expiry
WasIssued(token, expires_at) ==
    \E i \in peer.issued : i.token = token /\ i.expires_at = expires_at

\* the dict is empty or the record of an issued token
EmptyOrIssued(td) ==
    \/ td = EmptyDict
    \/ /\ td.keys = RecordKeys
       /\ WasIssued(get_token(td), get_expires_at(td))

(* C12 as stated: a token returned by getValidToken or ensureValidToken in *)
(* either process was issued by the authority and now < expiresAt - 60.    *)
C12_ReturnedIsUnexpired ==
    TokenReturned =>
        /\ WasIssued(peer.ret.token, peer.ret.expires_at)
        /\ now < peer.ret.expires_at - SAFETY_MARGIN

(* C12: with two processes on one keystore file and no locking, whatever   *)
(* the interleaving (a load may see the file empty or mixed while the      *)
(* other process writes), the file and each process hold nothing or the    *)
(* record of an issued token; a token returned by getValidToken, or by     *)
(* ensureValidToken from the cache, was issued and now < expiresAt - 60;   *)
(* a token returned by ensureValidToken from an issuance of that call is   *)
(* the token just issued to that process, for which now < expiresAt - 60   *)
(* holds exactly when its advertised lifetime exceeds 60 s.                *)
C12_SharedFile ==
    /\ EmptyOrIssued(load_keystore(file).td)
    /\ load_keystore(file).raises = ""
    /\ \A p \in Procs :
          /\ EmptyOrIssued(peer.procs[p].token_data)
          /\ (peer.procs[p].pc = "idle" /\ peer.procs[p].access_token # NoStr) =>
                peer.procs[p].access_token = get_token(peer.procs[p].token_data)
    /\ Cardinality(peer.issued) <= requests
    /\ TokenReturned =>
          /\ WasIssued(peer.ret.token, peer.ret.expires_at)
          /\ peer.ret.via \in {"cache", "read"} =>
                now < peer.ret.expires_at - SAFETY_MARGIN
          /\ peer.ret.via = "issue" =>
                /\ [token |-> peer.ret.token, expires_at |-> peer.ret.expires_at,
                    by |-> peer.ret.p] \in peer.issued
                /\ peer.ret.token = peer.procs[peer.ret.p].access_token
                /\ peer.ret.expires_at - now \in {60, 62}

C12_Witness ==
    /\ peer.ret.via = "cache"
    /\ peer.ret.token # NoStr
    /\ \E i \in peer.issued :
          /\ i.token = peer.ret.token
          /\ i.expires_at = peer.ret.expires_at
          /\ i.by # peer.ret.p
    /\ \A i \in peer.issued : i.by # peer.ret.p
    /\ now < peer.ret.expires_at - SAFETY_MARGIN

----------------------------------------------------------------------------
(* Growth of the collection by one batchAddTracks call.                    *)

DocCount(docs) == Cardinality({t \in TrackIds : docs[t].exists})
\* the ids of the records counted as success that were not in the store
NewIds == {IdAt(k) : k \in SuccessAt} \ {t \in TrackIds : store.before[t].exists}
\* a committed call with skipExisting on an available store
CommittedSkipping ==
    store.path = "committed" /\ store.db /\ store.skip_existing

(* C23 as stated: after a committed call with skipExisting the number of   *)
(* documents has grown by exactly the returned success count.              *)
C23_GrowsBySuccess ==
    CommittedSkipping =>
        DocCount(store.docs) - DocCount(store.before) = store.ret.success

(* C23: after a committed call with skipExisting on an available store no  *)
(* document is lost and the number of documents has grown by the number of *)
(* distinct ids, not in the store before, among the records counted as     *)
(* success.  That is at most the success count, and equal to it exactly    *)
(* when those records have pairwise distinct ids none of which was in the  *)
(* store: two records of one id count twice for one document, and a record *)
(* whose existence probe errors counts for a document that was there.      *)
C23_Growth ==
    CommittedSkipping =>
        LET grown == DocCount(store.docs) - DocCount(store.before)
            distinct == \A j, k \in SuccessAt : IdAt(j) = IdAt(k) => j = k
            fresh == \A k \in SuccessAt : ~store.before[IdAt(k)].exists
        IN  /\ \A t \in TrackIds : store.before[t].exists => store.docs[t].exists
            /\ grown = Cardinality(NewIds)
            /\ grown <= store.ret.success
            /\ store.ret.success = Cardinality(SuccessAt)
            /\ (grown = store.ret.success) <=> (distinct /\ fresh)
            /\ (\A k \in Positions : store.probed[k] # "error") => fresh

C23_Witness ==
    /\ CommittedSkipping
    /\ store.tracks_data = <<[track_id |-> "t1", track_name |-> "n1"],
                             [track_id |-> "t1", track_name |-> "n2"]>>
    /\ \A t \in TrackIds : ~store.before[t].exists
    /\ store.probed = <<"answers", "answers">>
    /\ store.ret = Counts(2, 0, 0)
    /\ DocCount(store.docs) = 1

----------------------------------------------------------------------------
(* Vocabulary of the claims about a run of main().                         *)

\* batch_add_tracks has been called in this run
BatchCalled == store.pc # "idle"
\* the collection is not what it was at the start of the run
StoreWritten == store.docs # MainDocs
\* the latest call was an issuance the authority rejected
IssuanceRejected ==
    /\ last.op = "ensure_valid_token"
    /\ last.sent = 1
    /\ last.resp.status # 200
\* a step of fetch_and_print_playlist_tracks failed and was caught
FetchFailed == main.caught # NoCaught

(* C22 as stated, for the token path: in a run in which a token issuance   *)
(* fails no write to the document store has happened.                      *)
C22_NoWriteIfIssuanceFails == IssuanceRejected => ~StoreWritten

(* C22: batchAddTracks is called at most once per run, by                  *)
(* fetch_and_print_playlist_tracks after the last page of the playlist was *)
(* received, every page request having succeeded, with the records of all  *)
(* the tracks fetched; the store changes in no other step of the run.  If  *)
(* the token issuance, the playlist-id extraction or a page request of     *)
(* fetch_and_print_playlist_tracks fails, batchAddTracks is not called and *)
(* the store is never written in that run.  (An issuance that fails in the *)
(* final ensureValidToken of main() comes after the write.)                *)
C22_State ==
    /\ main.batches <= 1
    /\ BatchCalled <=> main.batches = 1
    /\ StoreWritten => (BatchCalled /\ store.path = "committed")
    /\ BatchCalled =>
          /\ ~FetchFailed
          /\ main.playlist_id.kind = "str"
          /\ client.pc = "returned"
          /\ Len(client.calls) >= 1
          /\ \A k \in 1..Len(client.calls) : client.calls[k].status = 200
          /\ ~client.pages[Len(client.pages)].next
          /\ store.tracks_data = tracks_data_of(client.ret.tracks)
          /\ store.tracks_data # <<>>
    /\ FetchFailed => (~BatchCalled /\ ~StoreWritten)
    /\ main.playlist_id.kind = "raise" => (FetchFailed /\ ~BatchCalled)
    /\ (main.pc # "construct" /\ client # ClientIdle /\ client.pc = "raised")
          => (FetchFailed /\ ~BatchCalled)

C22_Step ==
    /\ store' # store => (main.pc = "fetch_store" /\ main'.pc = "status2")
    /\ (main'.caught # main.caught) =>
          /\ main.pc \in {"fetch_ensure", "fetch_extract", "fetch_tracks"}
          /\ main'.pc = "status2"
    /\ (main.pc = "fetch_ensure" /\ IssuanceRejected') => FetchFailed'

C22_WriteAfterFetch == []C22_State /\ [][C22_Step]_allvars

C22_Witness ==
    /\ main.pc = "done"
    /\ main.batches = 1
    /\ store.path = "committed"
    /\ StoreWritten
    /\ Len(client.calls) = 2
    /\ client.ret.tracks = <<"t1", "t2", "noid">>
    /\ store.ret = Counts(2, 0, 0)

----------------------------------------------------------------------------
\* main() is about to call ensure_valid_token()
AtEnsure ==
    \/ main.pc \in {"fetch_ensure", "reuse"}
    \/ main.pc = "fetch_tracks" /\ client.pc = "ready"
\* that call would send an issuance request
NeedsToken ==
    access_token = NoStr \/ is_token_valid(token_data, now).kind # "True"
\* the clock has reached expiresAt - 60 of the token held
Lapsed == ~Falsy(token_data) /\ is_token_valid(token_data, now).kind # "True"

====
